---- MODULE Spec2Model ----
(***************************************************************************)
(* Matching-and-attendance core of the facial recognition backend.         *)
(*                                                                         *)
(* Tables of the relational store are sequences of rows; the row index is  *)
(* the AUTO_INCREMENT primary key.  Distances are fixed-point numbers in    *)
(* units of 1/1000, confidences in units of 1/2000, so that                *)
(* confidence = 1 - distance/2 is exact for every distance.                *)
(***************************************************************************)
EXTENDS Integers, Sequences, FiniteSets, TLC

VARIABLES
    tripulantes,      \* table tripulantes: crew_id -> [estatus]
    face_embeddings,  \* table face_embeddings: rows [crew_id, embedding, active]
    planificacion,    \* table planificacion: id -> [id_evento, id_tripulante, estatus]
    marcacion,        \* table marcacion: rows of attendance records
    settings,         \* FACE_DISTANCE_THRESHOLD / FACE_CONFIDENCE_THRESHOLD
    today,            \* date.today()
    hora,             \* datetime.now().time()
    calls,            \* /recognize requests: position and form parameters
    response,         \* the response sent by the last step, if it sent one
    verdict,          \* the verdict of the last run of the matching path
    saves             \* save_face_embedding calls: position and arguments

vars == <<tripulantes, face_embeddings, planificacion, marcacion, settings,
          today, hora, calls, response, verdict, saves>>

\* Python's None and SQL NULL in the integer-valued fields
NULL == -1

----------------------------------------------------------------------------
(* Bounds of the model *)

MaxGallery == 3
MaxRows == 2
\* readings of the time of day within one date
MaxHora == 2
\* readings of the clock in a behaviour
MaxClock == 3
\* rows of the face_embeddings table under enrollments
MaxTemplates == 2

----------------------------------------------------------------------------
(* Program constants *)

\* settings.FACE_DISTANCE_THRESHOLD = 0.4, in 1/1000
FACE_DISTANCE_THRESHOLD == 400
\* settings.FACE_CONFIDENCE_THRESHOLD = 0.70, in 1/2000
FACE_CONFIDENCE_THRESHOLD == 1400
\* the literal 0.10 of the ambiguity check, in 1/2000
AMBIGUITY_MARGIN == 200
\* limit=5 passed by the endpoint
MATCH_LIMIT == 5
\* distance and confidence scales
DistanceOne == 1000
ConfidenceOne == 2000

----------------------------------------------------------------------------
(* Cosine distance, face_recognition.calculate_face_distance *)

RECURSIVE Dot(_, _)
Dot(u, v) ==
    IF u = <<>> THEN 0 ELSE Head(u) * Head(v) + Dot(Tail(u), Tail(v))

\* the largest r in lo..hi with r * r <= n
RECURSIVE SqrtBetween(_, _, _)
SqrtBetween(n, lo, hi) ==
    IF lo >= hi THEN lo
    ELSE LET mid == (lo + hi + 1) \div 2
         IN IF mid * mid <= n THEN SqrtBetween(n, mid, hi)
            ELSE SqrtBetween(n, lo, mid - 1)

\* Euclidean norm; the embeddings of the model have integer norms
Norm(u) == SqrtBetween(Dot(u, u), 0, Dot(u, u))

\* scipy.spatial.distance.cosine: 1 - u.v / (|u| |v|)
calculate_face_distance(u, v) ==
    DistanceOne - (DistanceOne * Dot(u, v)) \div (Norm(u) * Norm(v))

Max(a, b) == IF a >= b THEN a ELSE b
Min(a, b) == IF a <= b THEN a ELSE b

\* variant: the confidence is the cosine similarity, 1.0 - distance
ConfidenceOfSimilarity(distance) ==
    Max(0, Min(ConfidenceOne, ConfidenceOne - 2 * distance))

\* confidence = max(0.0, min(1.0, 1.0 - (distance / 2.0)))
Confidence(distance) ==
    Max(0, Min(ConfidenceOne, ConfidenceOne - distance))

----------------------------------------------------------------------------
(* find_best_face_matches *)

\* SELECT ... FROM face_embeddings fe INNER JOIN tripulantes t
\*  WHERE fe.active = TRUE AND t.estatus = 1
StoredRowSelected(fe, trip, i) ==
    /\ fe[i].active
    /\ fe[i].crew_id \in DOMAIN trip
    /\ trip[fe[i].crew_id].estatus = 1

RECURSIVE SelectRows(_, _, _)
SelectRows(fe, trip, i) ==
    IF i > Len(fe) THEN <<>>
    ELSE (IF StoredRowSelected(fe, trip, i)
          THEN <<[embedding_id |-> i, crew_id |-> fe[i].crew_id,
                  embedding |-> fe[i].embedding]>>
          ELSE <<>>) \o SelectRows(fe, trip, i + 1)

stored_embeddings(fe, trip) == SelectRows(fe, trip, 1)

\* the SELECT has no ORDER BY: cursor.fetchall() may give the rows in the
\* order of their ids or in another order; the reverse order stands for those
Reversed(rows) == [i \in 1..Len(rows) |-> rows[Len(rows) + 1 - i]]

FetchOrders(rows) == {rows, Reversed(rows)}

\* variant: the threshold is taken on the scale of the confidence
WithinThresholdOfConfidence(distance, threshold) == distance <= 2 * threshold

\* variant: a distance equal to the threshold is refused
WithinThresholdStrict(distance, threshold) == distance < threshold

\* if distance <= threshold
WithinThreshold(distance, threshold) == distance <= threshold

\* the loop over stored_embeddings building matches
RECURSIVE CompareAll(_, _, _)
CompareAll(rows, query_embedding, threshold) ==
    IF rows = <<>> THEN <<>>
    ELSE LET record == Head(rows)
             rest == CompareAll(Tail(rows), query_embedding, threshold)
         IN IF Len(record.embedding) # Len(query_embedding)
            THEN rest
            ELSE LET distance ==
                         calculate_face_distance(query_embedding, record.embedding)
                 IN IF WithinThreshold(distance, threshold)
                    THEN <<[embedding_id |-> record.embedding_id,
                            crew_id |-> record.crew_id,
                            distance |-> distance,
                            confidence |-> Confidence(distance)]>> \o rest
                    ELSE rest

\* matches.sort(key=lambda x: x['distance']): a stable sort
\* variant: the matches are left in the order of the rows
SortByDistanceSkipped(ms) == ms

RECURSIVE InsertSorted(_, _)
InsertSorted(sorted, m) ==
    IF sorted = <<>> THEN <<m>>
    ELSE IF Head(sorted).distance <= m.distance
         THEN <<Head(sorted)>> \o InsertSorted(Tail(sorted), m)
         ELSE <<m>> \o sorted

RECURSIVE SortByDistance(_)
SortByDistance(ms) ==
    IF ms = <<>> THEN <<>>
    ELSE InsertSorted(SortByDistance(SubSeq(ms, 1, Len(ms) - 1)), ms[Len(ms)])

\* variant: every match is returned
LimitSkipped(ms, limit) == ms

\* matches[:limit] if limit else matches
Limit(ms, limit) ==
    IF limit # 0 THEN SubSeq(ms, 1, Min(Len(ms), limit)) ELSE ms

\* lines 141-186 on the rows fetched
MatchesOfRows(rows, query_embedding, threshold, limit) ==
    Limit(SortByDistance(CompareAll(rows, query_embedding, threshold)), limit)

find_best_face_matches(fe, trip, query_embedding, threshold, limit) ==
    MatchesOfRows(stored_embeddings(fe, trip), query_embedding, threshold, limit)

----------------------------------------------------------------------------
(* The endpoint's checks on the matches, facial.py 136-159 *)

Rejected(reason) == [kind |-> "Rejected", reason |-> reason]
Accepted(m) == [kind |-> "Accepted", crew_id |-> m.crew_id,
                confidence |-> m.confidence, distance |-> m.distance]

\* variant: the margin taken on the raw distance gap
IsAmbiguousByDistance(best_match, second) ==
    (second.distance - best_match.distance)
        < (AMBIGUITY_MARGIN * DistanceOne) \div ConfidenceOne

\* if (confidence - second_confidence) < 0.10
IsAmbiguous(best_match, second) ==
    (best_match.confidence - second.confidence) < AMBIGUITY_MARGIN

MatchVerdict(matches, confidence_threshold) ==
    IF matches = <<>> THEN Rejected("no_candidates")
    ELSE LET best_match == matches[1]
         IN IF best_match.confidence < confidence_threshold
            THEN Rejected("low_confidence")
            ELSE IF Len(matches) > 1 /\ IsAmbiguous(best_match, matches[2])
                 THEN Rejected("ambiguous")
                 ELSE Accepted(best_match)

----------------------------------------------------------------------------
(* Database functions, app/db/database.py.  Each returns its failure value  *)
(* (None, [] or False) when the connection or the statement fails; `ok` is  *)
(* whether it did not.                                                     *)

\* fetchone() found no row, or the function failed: None
NoTripulante == [id_tripulante |-> NULL, estatus |-> NULL]

\* SELECT ... FROM tripulantes t WHERE t.crew_id = %s AND t.estatus = 1
get_tripulante_by_field(trip, crew_id, ok) ==
    IF ok /\ crew_id \in DOMAIN trip /\ trip[crew_id].estatus = 1
    THEN [id_tripulante |-> crew_id, estatus |-> trip[crew_id].estatus]
    ELSE NoTripulante

\* variant: the plannings of the event, of any crew member
get_planificacion_evento_de_todos(plan, id_evento, id_tripulante, ok) ==
    IF ok THEN {p \in DOMAIN plan : plan[p].id_evento = id_evento} ELSE {}

\* SELECT p.id ... FROM planificacion p WHERE p.id_evento = %s
\*  AND p.id_tripulante = %s : the ids of the rows found
get_planificacion_evento(plan, id_evento, id_tripulante, ok) ==
    IF ok
    THEN {p \in DOMAIN plan : /\ plan[p].id_evento = id_evento
                              /\ plan[p].id_tripulante = id_tripulante}
    ELSE {}

\* variant: the rows of the crew member and the event of any date
MarcacionesDeAnyDate(table, id_tripulante, id_evento, fecha) ==
    {i \in 1..Len(table) : /\ table[i].id_tripulante = id_tripulante
                           /\ table[i].id_evento = id_evento}

\* WHERE id_tripulante = %s AND id_evento = %s AND fecha_marcacion = %s
MarcacionesDe(table, id_tripulante, id_evento, fecha) ==
    {i \in 1..Len(table) : /\ table[i].id_tripulante = id_tripulante
                           /\ table[i].id_evento = id_evento
                           /\ table[i].fecha_marcacion = fecha}

\* verificar_marcacion_existente: the results it can return.  LIMIT 1 with
\* no ORDER BY returns any one matching row; a failure returns None.
verificar_marcacion_existente(table, id_tripulante, id_evento, fecha, ok) ==
    LET found == MarcacionesDe(table, id_tripulante, id_evento, fecha)
    IN IF ok /\ found # {} THEN found ELSE {NULL}

\* how a writing function ends.  The connections are opened with
\* autocommit=True, so a statement is committed when cursor.execute returns:
\*   "done"    the function returns its result;
\*   "refused" no connection, or execute raises: nothing is written, the
\*             function returns its failure value;
\*   "lost"    execute has written, connection.commit() raises: rollback()
\*             undoes nothing and the function returns its failure value.
WriteOutcomes == {"done", "refused", "lost"}

\* the table after a writing function that ended as outcome
Written(outcome, before, after) == IF outcome = "refused" THEN before ELSE after

\* variant: a writing function that failed is called once more
TriesAgain ==
    {<<w>> : w \in WriteOutcomes}
    \cup {<<w, v>> : w \in WriteOutcomes \ {"done"}, v \in WriteOutcomes}

\* the calls of one writing function in one request, as the outcomes of the
\* calls in order: the handler calls the function once and tests its result
\* once
Tries == {<<w>> : w \in WriteOutcomes}

\* what the last call returned
Outcome(tries) == tries[Len(tries)]

\* INSERT INTO marcacion (...) VALUES (...)
create_marcacion(table, marcacion_data) == Append(table, marcacion_data)

\* variant: the update of the row is undone
update_marcacion_undone(table, marcacion_id, marcacion_data) == table

\* UPDATE marcacion SET <every field whose value is not None> WHERE id_marcacion = %s
update_marcacion(table, marcacion_id, marcacion_data) ==
    [table EXCEPT ![marcacion_id] =
        [f \in DOMAIN @ |-> IF marcacion_data[f] # NULL
                            THEN marcacion_data[f] ELSE @[f]]]

\* variant: the statement reopens a planning that was done
update_planificacion_estatus_reopening(plan, id_planificacion, nuevo_estatus) ==
    [plan EXCEPT ![id_planificacion].estatus =
        IF @ = nuevo_estatus THEN "P" ELSE nuevo_estatus]

\* variant: the statement changes no row
update_planificacion_estatus_skipped(plan, id_planificacion, nuevo_estatus) ==
    plan

\* UPDATE planificacion SET estatus = %s WHERE id = %s
update_planificacion_estatus(plan, id_planificacion, nuevo_estatus) ==
    [plan EXCEPT ![id_planificacion].estatus = nuevo_estatus]

\* the table after one call call.fn(call.id, call.data) that does not fail
Called(call, table) ==
    CASE call.fn = "create_marcacion" -> create_marcacion(table, call.data)
      [] call.fn = "update_marcacion" ->
             update_marcacion(table, call.id, call.data)
      [] call.fn = "update_planificacion_estatus" ->
             update_planificacion_estatus(table, call.id, call.data)

\* the table after the calls of tries, each made on the table it finds
AfterTries(tries, before, call) ==
    LET after[i \in 0..Len(tries)] ==
            IF i = 0 THEN before
            ELSE Written(tries[i], after[i - 1], Called(call, after[i - 1]))
    IN after[Len(tries)]

----------------------------------------------------------------------------
(* recognize_face_and_mark_attendance, facial.py 187-257 *)

\* variant: a row that has both times starts over with an entrada
TipoMarcacionStartsOver(marcacion_existente) ==
    IF marcacion_existente # NULL
       /\ marcacion[marcacion_existente].hora_salida = NULL
    THEN 2 ELSE 1

\* 1 = entrada, 2 = salida
TipoMarcacion(marcacion_existente) ==
    IF marcacion_existente # NULL THEN 2 ELSE 1

\* variant: hora_entrada is the time of every marking
HoraEntradaDataNow(tipo_marcacion, hora_actual, hora_entrada_existente) ==
    hora_actual

\* 'hora_entrada': hora_actual if tipo_marcacion == 1
\*                 else marcacion_existente.get('hora_entrada')
HoraEntradaData(tipo_marcacion, hora_actual, hora_entrada_existente) ==
    IF tipo_marcacion = 1 THEN hora_actual ELSE hora_entrada_existente

\* 'hora_salida': hora_actual if tipo_marcacion == 2 else None
HoraSalidaData(tipo_marcacion, hora_actual) ==
    IF tipo_marcacion = 2 THEN hora_actual ELSE NULL

\* variant: every marking is written as processed
ProcesadoDataAlways(tipo_marcacion) == 1

\* 'procesado': '1' if tipo_marcacion == 2 else '0' (the column's value)
ProcesadoData(tipo_marcacion) ==
    IF tipo_marcacion = 2 THEN 1 ELSE 0

MarcacionData(tipo_marcacion, id_planificacion, id_evento, id_tripulante, fecha_actual, hora_actual, hora_entrada_existente) ==
    [id_planificacion |-> id_planificacion,
     id_evento        |-> id_evento,
     id_tripulante    |-> id_tripulante,
     fecha_marcacion  |-> fecha_actual,
     hora_entrada     |-> HoraEntradaData(tipo_marcacion, hora_actual,
                                          hora_entrada_existente),
     hora_salida      |-> HoraSalidaData(tipo_marcacion, hora_actual),
     hora_marcacion   |-> hora_actual,
     procesado        |-> ProcesadoData(tipo_marcacion),
     tipo_marcacion   |-> tipo_marcacion]

\* variant: the status is written on every marking
WritesEstatusAlways(tipo_marcacion) == TRUE

\* if tipo_marcacion == 2: update_planificacion_estatus(planificacion_actual['id'], 'R')
WritesEstatus(tipo_marcacion) == tipo_marcacion = 2

----------------------------------------------------------------------------
(* The world of the model *)

\* request slots: /recognize requests that can be in flight together
Calls == {"a", "b"}

Eventos == {1}

\* crew 1 and 2 are active, crew 3 is not
TripulantesInit ==
    (1 :> [estatus |-> 1]) @@ (2 :> [estatus |-> 1]) @@ (3 :> [estatus |-> 0])

\* crew 1 is planned for event 1; crew 2 is planned for no event
PlanificacionInit ==
    (1 :> [id_evento |-> 1, id_tripulante |-> 1, estatus |-> "P"])

\* one active template per crew member, pairwise at distance 1.0
FaceEmbeddingsInit ==
    << [crew_id |-> 1, embedding |-> <<1, 0, 0, 0>>, active |-> TRUE],
       [crew_id |-> 2, embedding |-> <<0, 1, 0, 0>>, active |-> TRUE],
       [crew_id |-> 3, embedding |-> <<0, 0, 1, 0>>, active |-> TRUE] >>

\* probes: crew 1, crew 2, crew 3, and one between crew 1 and crew 2
\* (distances 0.40 and 0.36)
PROBES ==
    { <<1, 0, 0, 0>>, <<0, 1, 0, 0>>, <<0, 0, 1, 0>>, <<15, 16, 12, 0>> }

SettingsInit ==
    [FACE_DISTANCE_THRESHOLD |-> FACE_DISTANCE_THRESHOLD,
     FACE_CONFIDENCE_THRESHOLD |-> FACE_CONFIDENCE_THRESHOLD]

IdleCall == [pc |-> "idle", id_evento |-> NULL, checkins |-> {}]

\* crew_id: best_match['crew_id'] when the matches passed the checks of
\* lines 136-159; leido: FALSE when verificar_marcacion_existente returned
\* None because it failed; writes, writes_estatus: the calls made of
\* create_marcacion / update_marcacion and of update_planificacion_estatus
NoResponse ==
    [out |-> "none", crew_id |-> NULL, id_tripulante |-> NULL,
     id_planificacion |-> NULL,
     marcacion_existente |-> NULL, tipo_marcacion |-> NULL,
     id_marcacion |-> NULL, estatus |-> "none", leido |-> TRUE,
     writes |-> 0, writes_estatus |-> 0]

NoVerdict == [probe |-> <<>>, limit |-> 0, matches |-> <<>>,
              result |-> Rejected("none")]

\* the processes that call save_face_embedding, each on a connection of its
\* own: the server (POST /create-embedding) and generate_face_embeddings.py
Savers == {"endpoint", "script"}

\* embedding_id: what the last call of the process returned
IdleSave == [pc |-> "idle", crew_id |-> NULL, embedding |-> <<>>,
             existing |-> NULL, embedding_id |-> NULL]

Init ==
    /\ tripulantes = TripulantesInit
    /\ face_embeddings = FaceEmbeddingsInit
    /\ planificacion = PlanificacionInit
    /\ marcacion = <<>>
    /\ settings = SettingsInit
    /\ today = 1
    /\ hora = 1
    /\ calls = [c \in Calls |-> IdleCall]
    /\ response = NoResponse
    /\ verdict = NoVerdict
    /\ saves = [s \in Savers |-> IdleSave]

----------------------------------------------------------------------------
(* The clock *)

\* the reading of datetime.now(): date.today() and datetime.now().time()
\* are the date and the time of day of one clock
Clock == (today - 1) * MaxHora + hora

\* datetime.now().time() advances within the date
Tick ==
    /\ Clock < MaxClock
    /\ hora < MaxHora
    /\ hora' = hora + 1
    /\ response' = NoResponse
    /\ UNCHANGED <<tripulantes, face_embeddings, planificacion, marcacion,
                   settings, today, calls, verdict, saves>>

\* midnight: date.today() advances; the markings noted by the requests in
\* flight are of a date no later marking has
NextDay ==
    /\ Clock < MaxClock
    /\ hora = MaxHora
    /\ today' = today + 1
    /\ hora' = 1
    /\ response' = NoResponse
    /\ calls' = [c \in Calls |-> [calls[c] EXCEPT !.checkins = {}]]
    /\ UNCHANGED <<tripulantes, face_embeddings, planificacion, marcacion,
                   settings, verdict, saves>>

----------------------------------------------------------------------------
(* POST /recognize.  The handler is a coroutine of the single event loop:   *)
(* it yields at `await photo.read()` and at `await asyncio.to_thread(...)`, *)
(* and runs from the extraction's result to its response without yielding.  *)
(* Requests refused before line 129 (invalid image, no face, no embedding)  *)
(* touch no table and are left out.                                        *)

InFlight(d) == calls[d].pc = "extract"

\* the handler of c raises or returns: the response is sent
Respond(c, fields) ==
    /\ response' = fields
    /\ calls' = [calls EXCEPT ![c] = IdleCall]

\* variant: a refusal marks every planning as done
RefuseCompleting(c, fields) ==
    /\ Respond(c, fields)
    /\ UNCHANGED marcacion
    /\ planificacion' =
          [p \in DOMAIN planificacion |-> [planificacion[p] EXCEPT !.estatus = "R"]]

\* raise HTTPException(...) of lines 136-183: the handler ends before line 187
Refuse(c, fields) ==
    /\ Respond(c, fields)
    /\ UNCHANGED <<marcacion, planificacion>>

\* the request arrives with a valid image of one face; the handler runs to
\* `await asyncio.to_thread(extract_face_embedding, ...)`, lines 91-122
Begin(c, id_evento) ==
    /\ calls[c].pc = "idle"
    /\ calls' = [calls EXCEPT ![c] = [IdleCall EXCEPT !.pc = "extract",
                                                      !.id_evento = id_evento]]
    /\ response' = NoResponse
    /\ UNCHANGED <<tripulantes, face_embeddings, planificacion, marcacion,
                   settings, today, hora, verdict, saves>>

\* planificacion[0] of ORDER BY p.hora_entrada ASC
PlanificacionActual(rows) == CHOOSE p \in rows : \A q \in rows : p <= q

\* a first marking of the key, seen by the requests in flight beside c
NoteCheckIn(c, key, first) ==
    [d \in Calls |->
        IF d = c THEN IdleCall
        ELSE IF first /\ InFlight(d)
             THEN [calls[d] EXCEPT !.checkins = @ \cup {key}]
             ELSE calls[d]]

\* lines 187-257 for an accepted, active, planned crew member
MarkAttendance(c, id_tripulante, id_planificacion) ==
    LET id_evento == calls[c].id_evento
        fecha_actual == today
        hora_actual == hora
    IN \E ok_verificar \in BOOLEAN :
       \E marcacion_existente \in
            verificar_marcacion_existente(marcacion, id_tripulante, id_evento,
                                          fecha_actual, ok_verificar) :
        LET tipo_marcacion == TipoMarcacion(marcacion_existente)
            marcacion_data ==
                MarcacionData(tipo_marcacion, id_planificacion, id_evento,
                              id_tripulante, fecha_actual, hora_actual,
                              IF marcacion_existente # NULL
                              THEN marcacion[marcacion_existente].hora_entrada
                              ELSE NULL)
            marcacion_id == IF marcacion_existente # NULL
                            THEN marcacion_existente ELSE Len(marcacion) + 1
            recorded(estatus) ==
                [NoResponse EXCEPT !.out = "Recorded",
                                   !.crew_id = id_tripulante,
                                   !.id_tripulante = id_tripulante,
                                   !.id_planificacion = id_planificacion,
                                   !.marcacion_existente = marcacion_existente,
                                   !.tipo_marcacion = tipo_marcacion,
                                   !.id_marcacion = marcacion_id,
                                   !.estatus = estatus,
                                   !.leido = ok_verificar]
            first == MarcacionesDe(marcacion, id_tripulante, id_evento,
                                   fecha_actual) = {}
            WriteMarcacion ==
                IF marcacion_existente # NULL
                THEN [fn |-> "update_marcacion", id |-> marcacion_existente,
                      data |-> marcacion_data]
                ELSE [fn |-> "create_marcacion", id |-> NULL,
                      data |-> marcacion_data]
            WriteEstatus ==
                [fn |-> "update_planificacion_estatus",
                 id |-> id_planificacion, data |-> "R"]
        IN \E write \in Tries :
           /\ Len(AfterTries(write, marcacion, WriteMarcacion)) <= MaxRows
           /\ marcacion' = AfterTries(write, marcacion, WriteMarcacion)
           /\ IF Outcome(write) # "done"
              THEN /\ Respond(c, [NoResponse EXCEPT !.out = "StorageError",
                                                    !.crew_id = id_tripulante,
                                                    !.leido = ok_verificar,
                                                    !.writes = Len(write)])
                   /\ UNCHANGED planificacion
              ELSE IF WritesEstatus(tipo_marcacion)
              THEN \E write_estatus \in Tries :
                     /\ planificacion' =
                           AfterTries(write_estatus, planificacion, WriteEstatus)
                     /\ response' =
                           [recorded(IF Outcome(write_estatus) = "done"
                                     THEN "written" ELSE "failed")
                               EXCEPT !.writes = Len(write),
                                      !.writes_estatus = Len(write_estatus)]
                     /\ calls' = [calls EXCEPT ![c] = IdleCall]
              ELSE /\ UNCHANGED planificacion
                   /\ response' = [recorded("none") EXCEPT !.writes = Len(write)]
                   /\ calls' = NoteCheckIn(
                          c, <<id_tripulante, id_evento, fecha_actual>>, first)

\* the crew members the planning system deactivates in the model's behaviours
Deactivated == {1}

\* the tripulantes table is written by the planning system, outside this
\* program: between the SELECT of the gallery and the SELECT of line 163 the
\* crew member may have been deactivated
EstatusAtLookup(crew_id) ==
    {tripulantes[crew_id].estatus} \cup (IF crew_id \in Deactivated THEN {0} ELSE {})

\* lines 161-185: the crew member and the planning of the best match
Eligibility(c, crew_id) ==
    \E estatus_now \in EstatusAtLookup(crew_id), ok_tripulante \in BOOLEAN :
    LET trip_now == [tripulantes EXCEPT ![crew_id].estatus = estatus_now]
        tripulante == get_tripulante_by_field(trip_now, crew_id, ok_tripulante)
        refused(out) == [NoResponse EXCEPT !.out = out, !.crew_id = crew_id]
    IN /\ tripulantes' = trip_now
       /\ IF tripulante = NoTripulante
          THEN Refuse(c, refused("MatchRejected"))
          ELSE IF tripulante.estatus # 1
          THEN Refuse(c, refused("PersonInactive"))
          ELSE \E ok_planificacion \in BOOLEAN :
               LET plan_rows == get_planificacion_evento(
                                    planificacion, calls[c].id_evento,
                                    tripulante.id_tripulante, ok_planificacion)
               IN IF plan_rows = {}
                  THEN Refuse(c, refused("NotAssigned"))
                  ELSE MarkAttendance(c, tripulante.id_tripulante,
                                      PlanificacionActual(plan_rows))

\* lines 129-159: the matches of the embedding; a failed gallery read gives []
MatchesOf(embedding, ok_gallery) ==
    IF ok_gallery
    THEN find_best_face_matches(face_embeddings, tripulantes, embedding,
                                settings.FACE_DISTANCE_THRESHOLD, MATCH_LIMIT)
    ELSE <<>>

\* the extraction's result arrives; the handler runs lines 129-311
Recognize(c) ==
    /\ calls[c].pc = "extract"
    /\ \E embedding \in PROBES, ok_gallery \in BOOLEAN :
        LET v == MatchVerdict(MatchesOf(embedding, ok_gallery),
                              settings.FACE_CONFIDENCE_THRESHOLD)
        IN IF v.kind = "Rejected"
           THEN /\ Refuse(c, [NoResponse EXCEPT !.out = "MatchRejected"])
                /\ UNCHANGED tripulantes
           ELSE Eligibility(c, v.crew_id)
    /\ UNCHANGED <<face_embeddings, settings, today, hora, verdict, saves>>

Next ==
    \/ Tick
    \/ NextDay
    \/ \E c \in Calls, id_evento \in Eventos : Begin(c, id_evento)
    \/ \E c \in Calls : Recognize(c)

Spec == Init /\ [][Next]_vars

----------------------------------------------------------------------------
(* The matching path alone, over galleries, probes and thresholds drawn     *)
(* from bounded sets.                                                      *)

\* templates at distance 0, 0.40, 0.50, 0.60, 0.64 and 0.90 of the probe
\* <<1, 0, 0, 0>>, and one of another dimension
TemplateVectors ==
    { <<1, 0, 0, 0>>, <<3, 4, 0, 0>>, <<1, 1, 1, 1>>, <<2, 4, 2, 1>>,
      <<9, 12, 12, 16>>, <<1, 7, 7, 1>>, <<1, 0, 0>> }

MatchProbes == { <<1, 0, 0, 0>>, <<1, 1, 1, 1>> }

\* crew 3 is not active, every other crew member is
TripulantesMatch ==
    [i \in 1..MaxGallery |-> [estatus |-> IF i = 3 THEN 0 ELSE 1]]

\* row i is the template of crew i: active with any vector, or deactivated
GalleryRows(i) ==
    {[crew_id |-> i, embedding |-> e, active |-> TRUE] : e \in TemplateVectors}
    \cup {[crew_id |-> i, embedding |-> <<1, 0, 0, 0>>, active |-> FALSE]}

RECURSIVE GalleriesOfLen(_)
GalleriesOfLen(n) ==
    IF n = 0 THEN {<<>>}
    ELSE {Append(g, r) : g \in GalleriesOfLen(n - 1), r \in GalleryRows(n)}

Galleries == UNION {GalleriesOfLen(n) : n \in 0..MaxGallery}

ThresholdSettings ==
    [FACE_DISTANCE_THRESHOLD : {FACE_DISTANCE_THRESHOLD, 900},
     FACE_CONFIDENCE_THRESHOLD : {FACE_CONFIDENCE_THRESHOLD, 1600}]

InitMatch ==
    /\ tripulantes = TripulantesMatch
    /\ face_embeddings \in Galleries
    /\ settings \in ThresholdSettings
    /\ planificacion = PlanificacionInit
    /\ marcacion = <<>>
    /\ today = 1
    /\ hora = 1
    /\ calls = [c \in Calls |-> IdleCall]
    /\ response = NoResponse
    /\ verdict = NoVerdict
    /\ saves = [s \in Savers |-> IdleSave]

\* lines 129-159 of the handler on one probe
Match(probe) ==
    /\ \E rows \in FetchOrders(stored_embeddings(face_embeddings, tripulantes)) :
        LET matches == MatchesOfRows(rows, probe,
                                     settings.FACE_DISTANCE_THRESHOLD, MATCH_LIMIT)
        IN verdict' = [probe |-> probe, limit |-> MATCH_LIMIT,
                       matches |-> matches,
                       result |-> MatchVerdict(
                                      matches, settings.FACE_CONFIDENCE_THRESHOLD)]
    /\ UNCHANGED <<tripulantes, face_embeddings, planificacion, marcacion,
                   settings, today, hora, calls, response, saves>>

NextMatch == \E probe \in MatchProbes : Match(probe)

SpecMatch == InitMatch /\ [][NextMatch]_vars

----------------------------------------------------------------------------
(* find_best_face_matches over galleries, probes, thresholds and limits     *)
(* drawn from bounded sets                                                  *)

\* templates at distance 0, 0.40, 0.50 and 2.0 of the probe <<1, 0, 0, 0>>,
\* and one of another dimension
FindVectors ==
    { <<1, 0, 0, 0>>, <<3, 4, 0, 0>>, <<1, 1, 1, 1>>, <<-1, 0, 0, 0>>,
      <<1, 0, 0>> }

FindProbes == { <<1, 0, 0, 0>>, <<1, 1, 1, 1>> }

\* limit: settings.MAX_FACE_MATCHES or the caller's argument (5 in the handler)
FindLimits == {1, 2, MATCH_LIMIT}

\* row i is the template of crew i: active with any vector, or deactivated
FindRows(i) ==
    {[crew_id |-> i, embedding |-> e, active |-> TRUE] : e \in FindVectors}
    \cup {[crew_id |-> i, embedding |-> <<1, 0, 0, 0>>, active |-> FALSE]}

RECURSIVE FindGalleriesOfLen(_)
FindGalleriesOfLen(n) ==
    IF n = 0 THEN {<<>>}
    ELSE {Append(g, r) : g \in FindGalleriesOfLen(n - 1), r \in FindRows(n)}

FindGalleries == UNION {FindGalleriesOfLen(n) : n \in 0..MaxGallery}

FindSettings ==
    [FACE_DISTANCE_THRESHOLD : {FACE_DISTANCE_THRESHOLD, 900},
     FACE_CONFIDENCE_THRESHOLD : {FACE_CONFIDENCE_THRESHOLD}]

InitFind ==
    /\ tripulantes = TripulantesMatch
    /\ face_embeddings \in FindGalleries
    /\ settings \in FindSettings
    /\ planificacion = PlanificacionInit
    /\ marcacion = <<>>
    /\ today = 1
    /\ hora = 1
    /\ calls = [c \in Calls |-> IdleCall]
    /\ response = NoResponse
    /\ verdict = NoVerdict
    /\ saves = [s \in Savers |-> IdleSave]

\* find_best_face_matches(probe, threshold, limit) and the checks of lines
\* 136-159 on its result
Find(probe, limit) ==
    /\ \E rows \in FetchOrders(stored_embeddings(face_embeddings, tripulantes)) :
        LET matches == MatchesOfRows(rows, probe,
                                     settings.FACE_DISTANCE_THRESHOLD, limit)
        IN verdict' = [probe |-> probe, limit |-> limit,
                       matches |-> matches,
                       result |-> MatchVerdict(
                                      matches, settings.FACE_CONFIDENCE_THRESHOLD)]
    /\ UNCHANGED <<tripulantes, face_embeddings, planificacion, marcacion,
                   settings, today, hora, calls, response, saves>>

NextFind == \E probe \in FindProbes, limit \in FindLimits : Find(probe, limit)

SpecFind == InitFind /\ [][NextFind]_vars

----------------------------------------------------------------------------
(* The matcher as the design document states it (4.1), over the gallery of  *)
(* the active crew members' templates                                      *)

GalleryView == {i \in 1..Len(face_embeddings) :
                   /\ face_embeddings[i].crew_id \in DOMAIN tripulantes
                   /\ tripulantes[face_embeddings[i].crew_id].estatus = 1}

DistanceTo(probe, i) ==
    DistanceOne - (DistanceOne * Dot(probe, face_embeddings[i].embedding))
                  \div (Norm(probe) * Norm(face_embeddings[i].embedding))

\* step 1: the active, comparable templates and their distances
Comparable(probe) ==
    {i \in GalleryView : /\ face_embeddings[i].active
                         /\ Len(face_embeddings[i].embedding) = Len(probe)}

Distances(probe) == [i \in Comparable(probe) |-> DistanceTo(probe, i)]

\* clamp(1 - distance/2, 0, 1)
ConfidenceOf(distance) ==
    LET c == ConfidenceOne - distance
    IN IF c < 0 THEN 0 ELSE IF c > ConfidenceOne THEN ConfidenceOne ELSE c

\* step 2: within the distance threshold
Candidates(probe, distance_threshold) ==
    {i \in Comparable(probe) : DistanceTo(probe, i) <= distance_threshold}

\* step 3: ascending by distance, ties by insertion order; d is Distances
Ranks(d, cands) ==
    [i \in cands |->
        Cardinality({j \in cands : \/ d[j] < d[i]
                                   \/ d[j] = d[i] /\ j < i})]

\* steps 2-8
DesignVerdict(probe, distance_threshold, confidence_threshold, ambiguity_margin, max_candidates) ==
    LET d == Distances(probe)
        cands == {i \in DOMAIN d : d[i] <= distance_threshold}
        rank == Ranks(d, cands)
        top == {i \in cands : rank[i] < max_candidates}
        best == CHOOSE i \in top : rank[i] = 0
        second == CHOOSE i \in top : rank[i] = 1
    IN IF top = {} THEN [kind |-> "Rejected", reason |-> "no_candidates"]
       ELSE IF ConfidenceOf(d[best]) < confidence_threshold
       THEN [kind |-> "Rejected", reason |-> "low_confidence"]
       ELSE IF /\ Cardinality(top) > 1
               /\ ConfidenceOf(d[best]) - ConfidenceOf(d[second])
                     < ambiguity_margin
       THEN [kind |-> "Rejected", reason |-> "ambiguous"]
       ELSE [kind |-> "Accepted",
             crew_id |-> face_embeddings[best].crew_id,
             confidence |-> ConfidenceOf(d[best]),
             distance |-> d[best]]

\* C9: for every probe, gallery and thresholds, the verdict of the
\* handler's matching path (find_best_face_matches, then the confidence and
\* ambiguity checks) is the verdict of the design's algorithm: no_candidates
\* when no active comparable template is within the distance threshold, else
\* low_confidence, else ambiguous, else Accepted with the best candidate's
\* crew member, confidence and distance.
MatchFollowsDesign ==
    verdict # NoVerdict =>
        verdict.result =
            DesignVerdict(verdict.probe, settings.FACE_DISTANCE_THRESHOLD,
                          settings.FACE_CONFIDENCE_THRESHOLD,
                          AMBIGUITY_MARGIN, MATCH_LIMIT)

\* a probe was rejected as ambiguous between two candidates
MatchFollowsDesignWitness ==
    /\ verdict.result = Rejected("ambiguous")
    /\ Len(verdict.matches) >= 2

\* C10: ambiguity is decided among the candidates within the distance
\* threshold and on their confidence gap: an ambiguous verdict has two such
\* candidates less than the margin apart; with the best candidate confident
\* enough, a gap below the margin (0.75 and 0.68) is rejected as ambiguous
\* and a gap of at least the margin (0.70 and 0.55) is accepted.
AmbiguityAmongFiltered ==
    verdict # NoVerdict =>
        LET d == Distances(verdict.probe)
            cands == {i \in DOMAIN d : d[i] <= settings.FACE_DISTANCE_THRESHOLD}
            rank == Ranks(d, cands)
            first == CHOOSE i \in cands : rank[i] = 0
            second == CHOOSE i \in cands : rank[i] = 1
            gap == ConfidenceOf(d[first]) - ConfidenceOf(d[second])
            confident == ConfidenceOf(d[first])
                             >= settings.FACE_CONFIDENCE_THRESHOLD
        IN /\ verdict.result = Rejected("ambiguous") =>
                  Cardinality(cands) >= 2 /\ gap < AMBIGUITY_MARGIN
           /\ Cardinality(cands) >= 2 /\ confident /\ gap < AMBIGUITY_MARGIN =>
                  verdict.result = Rejected("ambiguous")
           /\ Cardinality(cands) >= 2 /\ confident /\ gap >= AMBIGUITY_MARGIN =>
                  verdict.result.kind = "Accepted"

\* a probe is accepted although a template beyond the distance threshold is
\* less than the margin away from the best candidate's confidence
AmbiguityAmongFilteredWitness ==
    /\ verdict # NoVerdict
    /\ verdict.result.kind = "Accepted"
    /\ \E i \in Comparable(verdict.probe) :
          /\ DistanceTo(verdict.probe, i) > settings.FACE_DISTANCE_THRESHOLD
          /\ verdict.result.confidence
                - ConfidenceOf(DistanceTo(verdict.probe, i))
                < AMBIGUITY_MARGIN

----------------------------------------------------------------------------
(* The attendance records under sequences of /recognize requests *)

KeyOf(row) == <<row.id_tripulante, row.id_evento, row.fecha_marcacion>>

\* the request whose handler ran in this step, if it ended as Recorded
Recorded(c) ==
    /\ InFlight(c)
    /\ ~InFlight(c)'
    /\ response'.out = "Recorded"

\* the key of the marking of c in this step
KeyRecorded(c) == <<response'.id_tripulante, calls[c].id_evento, today>>

\* the records of a key before the step
RecordsOf(key) == MarcacionesDe(marcacion, key[1], key[2], key[3])

\* C1: after any sequence of accepted requests, interleaved or not, the
\* marcacion table holds at most one row for each (id_tripulante, id_evento,
\* fecha_marcacion).
OneRecordPerKey ==
    \A i, j \in 1..Len(marcacion) :
        KeyOf(marcacion[i]) = KeyOf(marcacion[j]) => i = j

\* C2: of two requests in flight together for a key with no record, only one
\* marks an entrada: a request never marks an entrada for a key whose first
\* entrada was marked by another request while it was in flight.
OneCheckInOfConcurrent ==
    [][\A c \in Calls :
         Recorded(c) /\ response'.tipo_marcacion = 1 =>
             KeyRecorded(c) \notin calls[c].checkins]_vars

\* C3: once a row's hora_entrada is set, no later step changes it, and the
\* row stays in the table.
CheckInTimeKept ==
    [][/\ Len(marcacion') >= Len(marcacion)
       /\ \A i \in 1..Len(marcacion) :
            marcacion[i].hora_entrada # NULL =>
                marcacion'[i].hora_entrada = marcacion[i].hora_entrada]_vars

\* a salida was marked at a later time than the row's entrada
CheckInTimeKeptWitness ==
    \E i \in 1..Len(marcacion) :
        /\ marcacion[i].hora_salida # NULL
        /\ marcacion[i].hora_entrada # NULL
        /\ marcacion[i].hora_entrada < marcacion[i].hora_salida

\* C4: in every state every row with procesado = 1 has hora_salida set, and
\* a row inserted by an entrada has procesado = 0 and no hora_salida.
ProcessedOnlyWithCheckOut ==
    /\ [](\A i \in 1..Len(marcacion) :
            marcacion[i].procesado = 1 => marcacion[i].hora_salida # NULL)
    /\ [][\A i \in (Len(marcacion) + 1)..Len(marcacion') :
            /\ marcacion'[i].procesado = 0
            /\ marcacion'[i].hora_salida = NULL]_vars

\* a salida marked a row that an entrada had inserted: the row is processed
\* and has both times
ProcessedOnlyWithCheckOutWitness ==
    \E i \in 1..Len(marcacion) :
        /\ marcacion[i].procesado = 1
        /\ marcacion[i].tipo_marcacion = 2
        /\ marcacion[i].hora_salida # NULL

\* C5: for a key with no row, a Recorded request inserts a row with
\* hora_entrada = now and no hora_salida; for a key whose row has no
\* hora_salida, the next Recorded request of the day sets hora_salida = now on
\* that row, leaves its hora_entrada and inserts nothing.
FirstInThenOut ==
    [][\A c \in Calls :
         Recorded(c) =>
             LET rows == RecordsOf(KeyRecorded(c))
             IN /\ rows = {} =>
                     /\ Len(marcacion') = Len(marcacion) + 1
                     /\ KeyOf(marcacion'[Len(marcacion')]) = KeyRecorded(c)
                     /\ marcacion'[Len(marcacion')].hora_entrada = hora
                     /\ marcacion'[Len(marcacion')].hora_salida = NULL
                /\ \A i \in rows :
                     rows = {i} /\ marcacion[i].hora_salida = NULL =>
                         /\ Len(marcacion') = Len(marcacion)
                         /\ marcacion'[i].hora_salida = hora
                         /\ marcacion'[i].hora_entrada
                               = marcacion[i].hora_entrada]_vars

\* C6: for a key whose row already has both times, a Recorded request is a
\* salida again and sets the row's hora_salida to now, whatever the planning's
\* estatus.
ReentrantCheckOut ==
    [][\A c \in Calls :
         Recorded(c) =>
             LET rows == RecordsOf(KeyRecorded(c))
             IN \A i \in rows :
                    rows = {i} /\ marcacion[i].hora_salida # NULL =>
                        /\ response'.tipo_marcacion = 2
                        /\ Len(marcacion') = Len(marcacion)
                        /\ marcacion'[i].hora_salida = hora]_vars

\* C7: after a salida whose status write did not fail, the row written has
\* procesado = 1 and the planning of that crew member for that event has
\* estatus 'R'.
CheckOutCompletes ==
    response.out = "Recorded" /\ response.tipo_marcacion = 2
        /\ response.estatus = "written" =>
        /\ marcacion[response.id_marcacion].procesado = 1
        /\ \A p \in DOMAIN planificacion :
              /\ planificacion[p].id_tripulante
                    = marcacion[response.id_marcacion].id_tripulante
              /\ planificacion[p].id_evento
                    = marcacion[response.id_marcacion].id_evento
              => planificacion[p].estatus = "R"

\* a salida was recorded and its status write succeeded
CheckOutCompletesWitness ==
    /\ response.out = "Recorded"
    /\ response.tipo_marcacion = 2
    /\ response.estatus = "written"
    /\ planificacion[response.id_planificacion].estatus = "R"

\* C8: a request that marks an entrada writes no planning estatus: a planning
\* that was 'P' before it is 'P' after it.
CheckInKeepsStatus ==
    [][\A c \in Calls :
         Recorded(c) /\ response'.tipo_marcacion = 1 =>
             planificacion' = planificacion]_vars

\* an entrada was recorded and the crew member's planning is still 'P'
CheckInKeepsStatusWitness ==
    /\ response.out = "Recorded"
    /\ response.tipo_marcacion = 1
    /\ response.marcacion_existente = NULL
    /\ planificacion[response.id_planificacion].estatus = "P"

----------------------------------------------------------------------------
(* Matching again on the same gallery *)

\* C11: matching the same probe against the same gallery with the same
\* thresholds again gives the identical verdict (the same rejection reason, or
\* the same crew member, confidence and distance), whatever the order in which
\* the rows are fetched, and a match changes neither the gallery nor the
\* thresholds.
MatchDeterministic ==
    [][/\ face_embeddings' = face_embeddings
       /\ tripulantes' = tripulantes
       /\ settings' = settings
       /\ verdict # NoVerdict /\ verdict'.probe = verdict.probe =>
              verdict'.result = verdict.result]_vars

\* the probe was matched with two templates at the same distance, fetched in
\* the other order than their ids
MatchDeterministicWitness ==
    /\ Len(verdict.matches) >= 2
    /\ verdict.matches[1].distance = verdict.matches[2].distance
    /\ verdict.matches[1].embedding_id > verdict.matches[2].embedding_id

----------------------------------------------------------------------------
(* The outcomes of /recognize *)

\* the handler of c ran in this step
Answered(c) == InFlight(c) /\ ~InFlight(c)'

\* C12: when the crew member of the accepted match is not active at the
\* lookup, the request is answered PersonInactive, not MatchRejected and not
\* Recorded, and no marking is written.
InactiveIsRefused ==
    [][\A c \in Calls :
         /\ Answered(c)
         /\ response'.crew_id # NULL
         /\ tripulantes'[response'.crew_id].estatus # 1
         => /\ response'.out = "PersonInactive"
            /\ marcacion' = marcacion
            /\ planificacion' = planificacion]_vars

\* the plannings of a crew member for an event
PlanningsOf(id_tripulante, id_evento) ==
    {p \in DOMAIN planificacion :
        /\ planificacion[p].id_tripulante = id_tripulante
        /\ planificacion[p].id_evento = id_evento}

\* C13: for a crew member accepted by the matcher and found active by the
\* lookup, the request is answered NotAssigned exactly when the crew member
\* has no planning for the event, and then no marking is inserted or updated.
NotAssignedIffNoPlanning ==
    [][\A c \in Calls :
         /\ Answered(c)
         /\ response'.crew_id # NULL
         /\ response'.out # "MatchRejected"
         /\ tripulantes'[response'.crew_id].estatus = 1
         => /\ response'.out = "NotAssigned"
                <=> PlanningsOf(response'.crew_id, calls[c].id_evento) = {}
            /\ response'.out = "NotAssigned" =>
                /\ marcacion' = marcacion
                /\ planificacion' = planificacion]_vars

\* C14: a request answered MatchRejected, PersonInactive or NotAssigned
\* leaves every marking and every planning estatus as they were.
RefusalsWriteNothing ==
    [][\A c \in Calls :
         /\ Answered(c)
         /\ response'.out \in {"MatchRejected", "PersonInactive", "NotAssigned"}
         => /\ marcacion' = marcacion
            /\ planificacion' = planificacion]_vars

\* a request was answered NotAssigned while a marking is stored and its crew
\* member's planning is 'R'
RefusalsWriteNothingWitness ==
    /\ response.out = "NotAssigned"
    /\ Len(marcacion) > 0
    /\ \E p \in DOMAIN planificacion : planificacion[p].estatus = "R"

\* C15: when the write of the marking fails, the request is answered with the
\* storage error, the marcacion table is as before the request and no planning
\* estatus is written.
FailedWriteLeavesNothing ==
    [][\A c \in Calls :
         Answered(c) /\ response'.out = "StorageError" =>
             /\ marcacion' = marcacion
             /\ planificacion' = planificacion]_vars

ReadFailureIsAnError ==
    [][\A c \in Calls :
         Answered(c) /\ ~response'.leido =>
             /\ response'.out = "StorageError"
             /\ Len(marcacion') = Len(marcacion)]_vars

\* C20: when a request marks a salida for a key, every row of the key has
\* hora_salida = now after it, and a row's hora_salida is never replaced by an
\* earlier time: the rows of a key show the time of the latest salida marked.
LastCheckOutWins ==
    [][/\ \A c \in Calls :
            Recorded(c) /\ response'.tipo_marcacion = 2 =>
                \A i \in MarcacionesDe(marcacion', response'.id_tripulante,
                                        calls[c].id_evento, today) :
                    marcacion'[i].hora_salida = hora
       /\ \A i \in 1..Len(marcacion) :
            /\ i <= Len(marcacion')
            /\ marcacion[i].hora_salida # NULL
                  => marcacion'[i].hora_salida >= marcacion[i].hora_salida]_vars

----------------------------------------------------------------------------
(* Enrollment: save_face_embedding and deactivate_face_embedding,          *)
(* app/utils/face_embeddings.py.  Each statement is committed on its own   *)
(* (autocommit); the table has no unique key over (crew_id, active).       *)

\* WHERE crew_id = %s AND active = TRUE
ActiveOf(fe, crew_id) ==
    {i \in 1..Len(fe) : fe[i].crew_id = crew_id /\ fe[i].active}

\* SELECT id FROM face_embeddings WHERE crew_id = %s AND active = TRUE LIMIT 1
\* : the rows fetchone() can return, None when there is none
ExistingOf(fe, crew_id) ==
    IF ActiveOf(fe, crew_id) # {} THEN ActiveOf(fe, crew_id) ELSE {NULL}

\* UPDATE face_embeddings SET embedding = %s, ... WHERE id = %s
UpdateEmbedding(fe, id, embedding) ==
    IF id \in 1..Len(fe) THEN [fe EXCEPT ![id].embedding = embedding] ELSE fe

\* INSERT INTO face_embeddings (crew_id, embedding, ..., active, created_at)
\* VALUES (%s, %s, ..., TRUE, NOW())
InsertEmbedding(fe, crew_id, embedding) ==
    Append(fe, [crew_id |-> crew_id, embedding |-> embedding, active |-> TRUE])

\* UPDATE face_embeddings SET active = FALSE WHERE crew_id = %s AND active = TRUE
deactivate_face_embedding(fe, crew_id) ==
    [i \in 1..Len(fe) |->
        IF fe[i].crew_id = crew_id /\ fe[i].active
        THEN [fe[i] EXCEPT !.active = FALSE] ELSE fe[i]]

\* the vectors extracted from the photos enrolled
EnrollVectors == { <<1, 0, 0, 0>>, <<0, 1, 0, 0>> }

\* the crew member was found (create_face_embedding 342-347; the script
\* selects the crew with estatus = 1), the embedding was extracted, and
\* save_face_embedding has run its check query, lines 47-53
SaveCheck(s, crew_id, embedding) ==
    /\ saves[s].pc = "idle"
    /\ get_tripulante_by_field(tripulantes, crew_id, TRUE) # NoTripulante
    /\ \E existing \in ExistingOf(face_embeddings, crew_id) :
          saves' = [saves EXCEPT ![s] = [pc |-> "checked", crew_id |-> crew_id,
                                         embedding |-> embedding,
                                         existing |-> existing,
                                         embedding_id |-> NULL]]
    /\ UNCHANGED <<tripulantes, face_embeddings, planificacion, marcacion,
                   settings, today, hora, calls, response, verdict>>

\* save_face_embedding lines 55-93: the UPDATE or the INSERT, the commit and
\* the result
SaveWrite(s) ==
    /\ saves[s].pc = "checked"
    /\ \E write \in WriteOutcomes :
        LET existing == saves[s].existing
            embedding_id == IF existing # NULL THEN existing
                            ELSE Len(face_embeddings) + 1
        IN /\ (existing = NULL /\ write # "refused") =>
                  Len(face_embeddings) < MaxTemplates
           /\ face_embeddings' =
                 Written(write, face_embeddings,
                         IF existing # NULL
                         THEN UpdateEmbedding(face_embeddings, existing,
                                              saves[s].embedding)
                         ELSE InsertEmbedding(face_embeddings, saves[s].crew_id,
                                              saves[s].embedding))
           /\ saves' = [saves EXCEPT ![s].pc = "idle",
                                     ![s].embedding_id =
                                         IF write = "done" THEN embedding_id
                                         ELSE NULL]
    /\ UNCHANGED <<tripulantes, planificacion, marcacion, settings, today, hora,
                   calls, response, verdict>>

\* deactivate_face_embedding(crew_id), one statement
Deactivate(crew_id) ==
    /\ \E write \in WriteOutcomes :
          face_embeddings' =
              Written(write, face_embeddings,
                      deactivate_face_embedding(face_embeddings, crew_id))
    /\ UNCHANGED <<tripulantes, planificacion, marcacion, settings, today, hora,
                   calls, response, verdict, saves>>

\* the table as create_face_embeddings_table leaves it
InitEnroll ==
    /\ tripulantes = TripulantesInit
    /\ face_embeddings = <<>>
    /\ settings = SettingsInit
    /\ planificacion = PlanificacionInit
    /\ marcacion = <<>>
    /\ today = 1
    /\ hora = 1
    /\ calls = [c \in Calls |-> IdleCall]
    /\ response = NoResponse
    /\ verdict = NoVerdict
    /\ saves = [s \in Savers |-> IdleSave]

NextEnroll ==
    \/ \E s \in Savers, crew_id \in DOMAIN tripulantes, embedding \in EnrollVectors :
          SaveCheck(s, crew_id, embedding)
    \/ \E s \in Savers : SaveWrite(s)
    \/ \E crew_id \in DOMAIN tripulantes : Deactivate(crew_id)

SpecEnroll == InitEnroll /\ [][NextEnroll]_vars

\* the save_face_embedding call of s ends in this step and returns an id
Enrolled(s) ==
    /\ saves[s].pc = "checked"
    /\ saves'[s].pc = "idle"
    /\ saves'[s].embedding_id # NULL

\* C18: after any sequence of enrollments and deactivations, two concurrent
\* enrollments of one crew member included, no crew member has more than one
\* row with active = TRUE.
OneActiveTemplate ==
    \A crew_id \in DOMAIN tripulantes :
        Cardinality(ActiveOf(face_embeddings, crew_id)) <= 1

\* C19: an enrollment of a crew member who has an active template leaves that
\* template stored with its vector and active = FALSE, and the template
\* enrolled is the crew member's only active one; no enrollment removes a row.
EnrollKeepsPrior ==
    [][\A s \in Savers :
         Enrolled(s) /\ saves[s].existing \in ActiveOf(face_embeddings, saves[s].crew_id) =>
             LET crew_id == saves[s].crew_id
                 active == ActiveOf(face_embeddings', crew_id)
             IN /\ Len(face_embeddings') >= Len(face_embeddings)
                /\ \A i \in ActiveOf(face_embeddings, crew_id) :
                      /\ face_embeddings'[i].embedding
                            = face_embeddings[i].embedding
                      /\ ~face_embeddings'[i].active
                /\ Cardinality(active) = 1
                /\ \A i \in active :
                      face_embeddings'[i].embedding = saves[s].embedding]_vars

----------------------------------------------------------------------------
(* Frame conditions and histories of the attendance records *)

\* the key of the request answered in this step
KeyAnswered(c) == <<response'.crew_id, calls[c].id_evento, today>>

EachWriteOnce ==
    [][\A c \in Calls :
         Answered(c) =>
             /\ response'.writes <= 1
             /\ response'.writes_estatus <= 1
             /\ response'.writes_estatus = 1 => response'.writes = 1
             /\ Len(marcacion') <= Len(marcacion) + 1
             /\ (response'.out = "Recorded" /\ response'.tipo_marcacion = 1)
                    => Len(marcacion') = Len(marcacion) + 1]_vars

\* a salida was answered after one write of the row and one status write that
\* failed
EachWriteOnceWitness ==
    /\ response.out = "Recorded"
    /\ response.writes = 1
    /\ response.writes_estatus = 1
    /\ response.estatus = "failed"

\* C26: a Recorded request returns the kind entrada exactly when it inserted
\* a row, which is exactly when the key had no row when the request read it,
\* and the kind salida exactly when it updated a row the key already had.
KindTellsTheWrite ==
    [][\A c \in Calls :
         Recorded(c) =>
             LET rows == RecordsOf(KeyRecorded(c))
                 inserted == Len(marcacion') = Len(marcacion) + 1
             IN /\ response'.tipo_marcacion \in {1, 2}
                /\ response'.tipo_marcacion = 1 <=> inserted
                /\ response'.tipo_marcacion = 1 <=> rows = {}
                /\ response'.tipo_marcacion = 2 <=>
                      /\ response'.id_marcacion \in rows
                      /\ Len(marcacion') = Len(marcacion)]_vars

\* C27: a row is inserted or changed only by a request whose probe the
\* matcher accepts for the row's crew member, whose lookup found that crew
\* member with estatus = 1, and for whom a planning of the row's event exists.
OnlyEligibleAreMarked ==
    [][\A i \in 1..Len(marcacion') :
         (i > Len(marcacion) \/ marcacion'[i] # marcacion[i]) =>
             \E c \in Calls :
                 /\ Answered(c)
                 /\ response'.crew_id = marcacion'[i].id_tripulante
                 /\ calls[c].id_evento = marcacion'[i].id_evento
                 /\ \E embedding \in PROBES :
                       LET v == DesignVerdict(
                                    embedding, settings.FACE_DISTANCE_THRESHOLD,
                                    settings.FACE_CONFIDENCE_THRESHOLD,
                                    AMBIGUITY_MARGIN, MATCH_LIMIT)
                       IN /\ v.kind = "Accepted"
                          /\ v.crew_id = marcacion'[i].id_tripulante
                 /\ tripulantes'[marcacion'[i].id_tripulante].estatus = 1
                 /\ PlanningsOf(marcacion'[i].id_tripulante,
                                marcacion'[i].id_evento) # {}]_vars

\* markings of crew 1 are stored, and the last request, of crew 2 who has
\* no planning, was refused and left no row
OnlyEligibleAreMarkedWitness ==
    /\ Len(marcacion) > 0
    /\ response.out = "NotAssigned"
    /\ response.crew_id = 2
    /\ \A i \in 1..Len(marcacion) : marcacion[i].id_tripulante = 1

\* C28: the rows only move forward: no step removes a row, a row inserted has
\* its entrada only, and a row that has a hora_salida, or procesado = 1,
\* keeps having them, with its key and its hora_entrada.
RowsMoveForward ==
    [][/\ Len(marcacion') >= Len(marcacion)
       /\ \A i \in 1..Len(marcacion) :
            /\ i <= Len(marcacion')
            /\ KeyOf(marcacion'[i]) = KeyOf(marcacion[i])
            /\ marcacion[i].hora_entrada # NULL => marcacion'[i].hora_entrada # NULL
            /\ marcacion[i].hora_salida # NULL => marcacion'[i].hora_salida # NULL
            /\ marcacion[i].procesado = 1 => marcacion'[i].procesado = 1
       /\ \A i \in (Len(marcacion) + 1)..Len(marcacion') :
            /\ marcacion'[i].hora_entrada # NULL
            /\ marcacion'[i].hora_salida = NULL]_vars

\* a salida was marked on a row at a later time than its entrada, and the
\* row is processed
RowsMoveForwardWitness ==
    /\ response.out = "Recorded"
    /\ response.tipo_marcacion = 2
    /\ marcacion[response.id_marcacion].procesado = 1
    /\ marcacion[response.id_marcacion].hora_entrada
          < marcacion[response.id_marcacion].hora_salida

\* C29: a planning whose estatus is 'R' stays 'R' in every step, and no step
\* removes a planning; an entrada marked on a later date leaves it 'R'.
CompletedStaysCompleted ==
    [][/\ DOMAIN planificacion \subseteq DOMAIN planificacion'
       /\ \A p \in DOMAIN planificacion :
            planificacion[p].estatus = "R" => planificacion'[p].estatus = "R"]_vars

\* an entrada was marked on a later date than a salida that completed the
\* planning, and the planning is 'R'
CompletedStaysCompletedWitness ==
    /\ response.out = "Recorded"
    /\ response.tipo_marcacion = 1
    /\ planificacion[response.id_planificacion].estatus = "R"
    /\ \E i \in 1..Len(marcacion) :
          /\ marcacion[i].fecha_marcacion < today
          /\ marcacion[i].id_planificacion = response.id_planificacion
          /\ marcacion[i].procesado = 1

----------------------------------------------------------------------------
(* The list find_best_face_matches returns *)

TiesInInsertionOrder ==
    verdict # NoVerdict =>
        \A j, k \in 1..Len(verdict.matches) :
            /\ j < k
            /\ verdict.matches[j].distance = verdict.matches[k].distance
            => verdict.matches[j].embedding_id < verdict.matches[k].embedding_id

----------------------------------------------------------------------------
(* Distances and confidences *)

\* the rows find_best_face_matches compares with the probe
Compared(probe) ==
    LET rows == stored_embeddings(face_embeddings, tripulantes)
    IN {j \in 1..Len(rows) : Len(rows[j].embedding) = Len(probe)}

\* C25: every distance computed is in [0, 2], the confidence derived from it
\* is 1 - distance/2, in [0, 1], and does not grow with the distance; a
\* template equal to the probe is at distance 0 with confidence 1.0, and when
\* it is the only template of the gallery the probe is accepted for its crew
\* member.
DistanceAndConfidenceRange ==
    verdict # NoVerdict =>
        LET rows == stored_embeddings(face_embeddings, tripulantes)
            dist(j) == calculate_face_distance(verdict.probe, rows[j].embedding)
        IN /\ \A j \in Compared(verdict.probe) :
                /\ 0 <= dist(j) /\ dist(j) <= 2 * DistanceOne
                /\ 0 <= Confidence(dist(j)) /\ Confidence(dist(j)) <= ConfidenceOne
                /\ Confidence(dist(j)) * DistanceOne * 2
                      = ConfidenceOne * (2 * DistanceOne - dist(j))
                /\ rows[j].embedding = verdict.probe =>
                      dist(j) = 0 /\ Confidence(dist(j)) = ConfidenceOne
           /\ \A j, k \in Compared(verdict.probe) :
                dist(j) <= dist(k) => Confidence(dist(j)) >= Confidence(dist(k))
           /\ \A j \in 1..Len(verdict.matches) :
                verdict.matches[j].confidence
                    = Confidence(verdict.matches[j].distance)
           /\ (Len(rows) = 1 /\ rows[1].embedding = verdict.probe) =>
                verdict.result =
                    [kind |-> "Accepted", crew_id |-> rows[1].crew_id,
                     confidence |-> ConfidenceOne, distance |-> 0]

\* the probe was accepted at distance 0 with confidence 1.0 on a gallery
\* whose only selected template is the probe itself
DistanceAndConfidenceRangeWitness ==
    /\ verdict # NoVerdict
    /\ verdict.result.kind = "Accepted"
    /\ verdict.result.distance = 0
    /\ verdict.result.confidence = ConfidenceOne
    /\ Len(stored_embeddings(face_embeddings, tripulantes)) = 1

\* C30: with the default thresholds (distance 0.40, confidence 0.70) every
\* match has confidence >= 0.80, no probe is rejected for low confidence, and
\* two matches are at most 0.20 of confidence apart.
DefaultsLeaveNoLowConfidence ==
    (/\ verdict # NoVerdict
     /\ settings.FACE_DISTANCE_THRESHOLD = FACE_DISTANCE_THRESHOLD
     /\ settings.FACE_CONFIDENCE_THRESHOLD = FACE_CONFIDENCE_THRESHOLD) =>
        LET ms == verdict.matches
        IN /\ \A j \in 1..Len(ms) : 10 * ms[j].confidence >= 8 * ConfidenceOne
           /\ verdict.result # Rejected("low_confidence")
           /\ \A j, k \in 1..Len(ms) :
                10 * (ms[j].confidence - ms[k].confidence) <= 2 * ConfidenceOne

\* with the default thresholds a probe was accepted at confidence 1.0 over a
\* second match at exactly the distance threshold, confidence 0.80
DefaultsLeaveNoLowConfidenceWitness ==
    /\ settings.FACE_DISTANCE_THRESHOLD = FACE_DISTANCE_THRESHOLD
    /\ settings.FACE_CONFIDENCE_THRESHOLD = FACE_CONFIDENCE_THRESHOLD
    /\ verdict.result.kind = "Accepted"
    /\ Len(verdict.matches) = 2
    /\ verdict.matches[1].confidence = ConfidenceOne
    /\ 10 * verdict.matches[2].confidence = 8 * ConfidenceOne

====
